---- MODULE Spec2Model ----
(***************************************************************************)
(* Port and process registry of proto-ddf (src/config/port_registry.py).  *)
(*                                                                         *)
(* One PortRegistry instance of one process, the registry file it loads   *)
(* and saves, the generated/ directory that garbage collection reads, and *)
(* the operating-system processes whose PIDs the registry records.        *)
(*                                                                         *)
(* The allocation range min_port..max_port (3000..5000 in the source) is  *)
(* MinPort..MaxPort here, with the source's min_port and a bounded        *)
(* max_port.  The port probe (_is_port_available) and the behaviour of    *)
(* foreign processes are the environment: every answer they can give is   *)
(* an input of the action that asks.  The registry file is writable in    *)
(* the runs modelled here.                                                 *)
(***************************************************************************)
EXTENDS Integers, FiniteSets, Sequences, TLC

\* ---------------------------------------------------------------- bounds
\* PortRegistry.__init__(max_port): the top of the allocation range.
MaxPort == 3005
\* Process ids 1..MaxPid.
MaxPid == 2
\* Steps of one run: the calls of an allocation-only run; the registry
\* operations and the steps of the environment of a run with process control
\* and loading.
MaxAllocCalls == 2
MaxSteps == 3

\* ------------------------------------------------------------- constants
\* PortRegistry.__init__(min_port): the bottom of the allocation range.
MinPort == 3000
\* "No port requested" (None) and "no pid key" of an entry.
None == -1
NoPid == 0
\* range(10) of the plain-signal grace loop of stop_app.
GracePolls == 10
\* The ceiling of the start-up wait of open_app, in seconds.
WaitCeiling == 30

\* Application names: directory names under generated/.  The name that
\* starts with a dot is the one load_generated_apps and _garbage_collect skip.
Names == {"app1", "app2", ".app3"}
startswith_dot(name) == name = ".app3"

PortRange == MinPort..MaxPort
Pids == 1..MaxPid
\* What a caller can pass as a requested port: None, every port of the range,
\* a port above the range.
Candidates == {None} \cup (MinPort..(MaxPort + 1))

VARIABLES
    GENERATOR_BACKEND_PORT,   \* constants.BACKEND_PORT, read at import
    GENERATOR_FRONTEND_PORT,  \* constants.FRONTEND_PORT, read at import
    HAS_PSUTIL,               \* whether psutil could be imported
    data,                     \* self._data["apps"]: name -> entry
    store,                    \* REGISTRY_FILE: [exists, doc]
    writable,                 \* whether REGISTRY_FILE.write_text succeeds
    rootExists,               \* Path("generated").exists()
    dirs,                     \* names of the directories under generated/
    alive,                    \* pids of the running processes
    degraded,                 \* some allocation so far returned the last resort
    budget,                   \* steps left in this run
    last,                     \* the last step and what it returned
    mem,                      \* self._data["apps"] of each concurrent process
    pc,                       \* where each concurrent process is
    holds,                    \* which processes hold flock(LOCK_EX) on LOCK_FILE
    faults,                   \* the failures so far that later steps do not show: of flock
    GENERATED_BACKEND_PORT,   \* constants.GENERATED_BACKEND_PORT
    GENERATED_FRONTEND_PORT,  \* constants.GENERATED_FRONTEND_PORT
    port_config,              \* PORT_CONFIG_FILE: port type -> saved port
    stage,                    \* how far the import of constants.py has run
    project_name              \* GeneratorState.project_name of each browser session

vars == <<GENERATOR_BACKEND_PORT, GENERATOR_FRONTEND_PORT, HAS_PSUTIL, data,
          store, writable, rootExists, dirs, alive, degraded, budget, last,
          mem, pc, holds, faults,
          GENERATED_BACKEND_PORT, GENERATED_FRONTEND_PORT, port_config, stage,
          project_name>>

generated == <<GENERATED_BACKEND_PORT, GENERATED_FRONTEND_PORT, port_config, stage>>
config == <<GENERATOR_BACKEND_PORT, GENERATOR_FRONTEND_PORT, HAS_PSUTIL, writable, generated,
            project_name>>
disk == <<rootExists, dirs>>
procs == <<mem, pc, holds, faults>>

GeneratorPorts == {GENERATOR_BACKEND_PORT, GENERATOR_FRONTEND_PORT}

\* ------------------------------------------------------------- entries
\* An entry {"backend": b, "frontend": f} with an optional "pid" key.
Entry(b, f, p) == [backend |-> b, frontend |-> f, pid |-> p]

\* An assignment that keeps the "pid" key of the entry it replaces.
Put_keeping_pid(d, name, e) ==
    [n \in DOMAIN d \cup {name} |->
        IF n # name THEN d[n]
        ELSE IF name \in DOMAIN d /\ e.pid = NoPid
             THEN Entry(e.backend, e.frontend, d[name].pid)
             ELSE e]

Put(d, name, e) == [n \in DOMAIN d \cup {name} |-> IF n = name THEN e ELSE d[n]]
\* A deletion that deletes nothing.
Del_nothing(d, name) == d

Del(d, name) == [n \in DOMAIN d \ {name} |-> d[n]]
EmptyApps == [n \in {} |-> Entry(0, 0, NoPid)]

\* ---------------------------------------------------------- persistence
\* json.dumps(self._data): the document as its members, one per key of each
\* entry; the "pid" member exists only when the entry has the key.
dumps(d) ==
    UNION { {<<n, "backend", d[n].backend>>, <<n, "frontend", d[n].frontend>>}
            \cup (IF d[n].pid # NoPid THEN {<<n, "pid", d[n].pid>>} ELSE {})
          : n \in DOMAIN d }

member(doc, n, key) == CHOOSE v \in {t[3] : t \in {u \in doc : u[1] = n /\ u[2] = key}} : TRUE
has_member(doc, n, key) == \E t \in doc : t[1] = n /\ t[2] = key

\* A reader that takes "backend" and "frontend" of each entry and nothing else.
loads_without_pid(doc) ==
    [n \in {t[1] : t \in doc} |->
        Entry(member(doc, n, "backend"), member(doc, n, "frontend"), NoPid)]

\* json.loads(REGISTRY_FILE.read_text())["apps"]
loads(doc) ==
    [n \in {t[1] : t \in doc} |->
        Entry(member(doc, n, "backend"), member(doc, n, "frontend"),
              IF has_member(doc, n, "pid") THEN member(doc, n, "pid") ELSE NoPid)]

\* A _save that adds its entries to what the file holds.
save_merging(d) ==
    IF writable THEN [exists |-> TRUE, kind |-> "apps", doc |-> store.doc \cup dumps(d)] ELSE store

\* _save: write_text under the lock; a failing write is swallowed.
save(d) == IF writable THEN [exists |-> TRUE, kind |-> "apps", doc |-> dumps(d)] ELSE store

\* A probe that takes every positive pid for a running process.
is_process_running_any(pid) == pid > 0

\* _is_process_running(pid): signal 0 reaches the process.
is_process_running(pid) == pid > 0 /\ pid \in alive

\* _garbage_collect: the entries that stay.  No generated/ directory: nothing
\* is removed.  Otherwise an entry stays when a directory of its name exists
\* whose name does not start with a dot.
\* A directory listing that finds nothing.
existing_apps_none == {}

existing_apps == {n \in dirs : ~startswith_dot(n)}
\* A garbage collection that removes nothing.
to_remove_nothing(d) == {}

to_remove(d) == IF rootExists THEN {n \in DOMAIN d : n \notin existing_apps} ELSE {}
garbage_collect(d) == [n \in DOMAIN d \ to_remove(d) |-> d[n]]
\* A garbage collection that signals every recorded process that is alive.
gc_signalled_every(d) == {d[n].pid : n \in {m \in DOMAIN d : is_process_running(d[m].pid)}}

\* The pids _garbage_collect sends SIGTERM to.
gc_signalled(d) == {d[n].pid : n \in {m \in to_remove(d) : is_process_running(d[m].pid)}}

\* ------------------------------------------------------------- queries
\* _reserved_ports
reserved_ports(d) ==
    GeneratorPorts \cup {d[n].backend : n \in DOMAIN d} \cup {d[n].frontend : n \in DOMAIN d}

\* get_ports / get_pid / get_process_info; absent is <<>>, None or NoPid.
get_ports(d, name) == IF name \in DOMAIN d THEN <<d[name].backend, d[name].frontend>> ELSE <<>>
get_pid(d, name) == IF name \in DOMAIN d THEN d[name].pid ELSE NoPid
get_process_info(d, name) ==
    IF get_ports(d, name) # <<>> /\ get_pid(d, name) # NoPid
    THEN <<get_pid(d, name), d[name].backend, d[name].frontend>>
    ELSE <<>>

\* ----------------------------------------------------------- allocation
\* The last resort of _pick_available_port.
Max2(a, b) == IF a >= b THEN a ELSE b
Min2(a, b) == IF a <= b THEN a ELSE b
\* A last resort that is not clamped to the range.
last_resort_unclamped == GENERATOR_FRONTEND_PORT + 1

last_resort == Max2(MinPort, Min2(MaxPort, GENERATOR_FRONTEND_PORT + 1))

\* _pick_available_port(forbidden) when the probe answers "free" exactly for
\* the ports of avail: the random rounds return any free port outside
\* forbidden, the sweep the lowest one, and with none the last resort.
pick_available_port(forbidden, avail) ==
    LET free == {c \in PortRange : c \notin forbidden /\ c \in avail}
    IN  IF free # {} THEN {[port |-> c, lr |-> FALSE] : c \in free}
        ELSE {[port |-> last_resort, lr |-> TRUE]}

\* Every outcome of _pick_available_port(forbidden) over the answers of the probe.
PickOutcomes(forbidden) ==
    UNION {pick_available_port(forbidden, {c}) : c \in PortRange \ forbidden}
    \cup pick_available_port(forbidden, {})

\* A _valid that does not look at the reserved ports.
valid_ignoring_reserved(p, forbidden) ==
    /\ p # None
    /\ MinPort <= p /\ p <= MaxPort
    /\ p \notin GeneratorPorts

\* _valid(p) of ensure_ports
valid(p, forbidden) ==
    /\ p # None
    /\ MinPort <= p /\ p <= MaxPort
    /\ p \notin GeneratorPorts
    /\ p \notin forbidden

\* A reuse test that never reuses.
reusable_never(e) == FALSE

\* The reuse test of ensure_ports (line 441) on the recorded entry.
reusable(e) ==
    /\ e.backend # 0 /\ e.frontend # 0
    /\ e.backend # e.frontend
    /\ e.backend \notin GeneratorPorts
    /\ e.frontend \notin GeneratorPorts

\* The forbidden set of ensure_ports: the reserved ports without the ports
\* this application had before.
forbidden_for(d, name) ==
    IF name \in DOMAIN d
    THEN reserved_ports(d) \ {d[name].backend, d[name].frontend}
    ELSE reserved_ports(d)

\* An ensure_ports that does not add the backend to the forbidden set.
with_backend_forgotten(forbidden, b) == forbidden

\* forbidden.add(backend_concrete): what the frontend must avoid.
with_backend(forbidden, b) == forbidden \cup {b}

\* The backend of ensure_ports: the requested port when _valid, a picked one
\* otherwise.
backend_choices(rb, forbidden) ==
    IF valid(rb, forbidden) THEN {[port |-> rb, lr |-> FALSE]} ELSE PickOutcomes(forbidden)

\* The frontend of ensure_ports: picked when the requested port is not _valid
\* or equals the backend, the requested port otherwise.
frontend_choices(rf, b, forbidden) ==
    IF (~valid(rf, forbidden)) \/ rf = b
    THEN PickOutcomes(forbidden)
    ELSE {[port |-> rf, lr |-> FALSE]}

\* The shape of a request: no port requested, the same port requested twice,
\* anything else.
ReqKind(rb, rf) ==
    IF rb = None /\ rf = None THEN "none" ELSE IF rb = rf THEN "same" ELSE "other"

\* What the last operation was and returned, for an operation that returns
\* ports: lr says that a port of the pair is the last resort, again that the
\* call before it was the same operation for the same application with a
\* request of the same shape.
Returned(op, name, rb, rf, b, f, lr) ==
    [op |-> op, app |-> name, req |-> ReqKind(rb, rf), backend |-> b,
     frontend |-> f, ok |-> TRUE, lr |-> lr,
     again |-> (last.op = op /\ last.app = name /\ last.req = ReqKind(rb, rf)),
     pid |-> NoPid, signals |-> {}, polls |-> 0]

\* What the last operation was and returned, for an operation that returns
\* no ports.
NoCall(op, name) ==
    [op |-> op, app |-> name, req |-> "none", backend |-> 0,
     frontend |-> 0, ok |-> TRUE, lr |-> FALSE, again |-> FALSE,
     pid |-> NoPid, signals |-> {}, polls |-> 0]

\* The body of ensure_ports, for the caller op.
EnsureBody(op, name, rb, rf) ==
    IF name \in DOMAIN data /\ reusable(data[name])
    THEN \* reuse: the entry is rewritten with backend and frontend only
         /\ data' = Put(data, name, Entry(data[name].backend, data[name].frontend, NoPid))
         /\ store' = save(data')
         /\ degraded' = degraded
         /\ last' = Returned(op, name, rb, rf, data[name].backend, data[name].frontend, FALSE)
    ELSE \E pb \in backend_choices(rb, forbidden_for(data, name)) :
         \E pf \in frontend_choices(rf, pb.port,
                                    with_backend(forbidden_for(data, name), pb.port)) :
            /\ data' = Put(data, name, Entry(pb.port, pf.port, NoPid))
            /\ store' = save(data')
            /\ degraded' = (degraded \/ pb.lr \/ pf.lr)
            /\ last' = Returned(op, name, rb, rf, pb.port, pf.port, pb.lr \/ pf.lr)

ensure_ports(name, rb, rf) ==
    /\ budget > 0
    /\ budget' = budget - 1
    /\ EnsureBody("ensure_ports", name, rb, rf)
    /\ UNCHANGED <<config, procs, disk, alive>>

reserve_pair(name) ==
    /\ budget > 0
    /\ budget' = budget - 1
    /\ EnsureBody("reserve_pair", name, None, None)
    /\ UNCHANGED <<config, procs, disk, alive>>

\* ------------------------------------------------------ process control
\* A set_pid that makes an entry for an application that has none.
set_pid_creating(name, pid) ==
    /\ budget > 0
    /\ budget' = budget - 1
    /\ data' = Put(data, name,
                   IF name \in DOMAIN data
                   THEN Entry(data[name].backend, data[name].frontend, pid)
                   ELSE Entry(0, 0, pid))
    /\ store' = save(data')
    /\ last' = [NoCall("set_pid", name) EXCEPT !.pid = pid]
    /\ UNCHANGED <<config, procs, disk, alive, degraded>>

\* set_pid: only an application with an entry gets the pid.
set_pid(name, pid) ==
    /\ budget > 0
    /\ budget' = budget - 1
    /\ IF name \in DOMAIN data
       THEN /\ data' = Put(data, name, Entry(data[name].backend, data[name].frontend, pid))
            /\ store' = save(data')
       ELSE UNCHANGED <<data, store>>
    /\ last' = [NoCall("set_pid", name) EXCEPT !.pid = pid]
    /\ UNCHANGED <<config, procs, disk, alive, degraded>>

\* One run of the body of stop_app: what it returned (ok), whether it cleared
\* the pid (clear), the signals it sent, the sleeps of the grace loop (polls)
\* and whether the process is gone afterwards (dead).
StopRun(ok, clear, sigs, polls, dead) ==
    [ok |-> ok, clear |-> clear, sigs |-> sigs, polls |-> polls, dead |-> dead]

\* stop_app with psutil: NoSuchProcess and AccessDenied are swallowed, and the
\* pid is cleared after them as after a delivered signal.
StopPsutil(pid) ==
    {StopRun(TRUE, TRUE, {}, 0, TRUE),                       \* NoSuchProcess: it died first
     StopRun(TRUE, TRUE, {}, 0, FALSE),                      \* AccessDenied on terminate()
     StopRun(TRUE, TRUE, {<<pid, "SIGTERM">>}, 0, TRUE),     \* exits within wait(3.0)
     StopRun(TRUE, TRUE, {<<pid, "SIGTERM">>, <<pid, "SIGKILL">>}, 0, TRUE)}

\* stop_app without psutil: os.kill(SIGTERM), up to GracePolls probes 0.3 s
\* apart, os.kill(SIGKILL) when the process is still there; an OSError of
\* either os.kill returns False before the pid is cleared.
StopSignals(pid) ==
    {StopRun(FALSE, FALSE, {}, 0, TRUE)}                     \* it died before SIGTERM
    \cup {StopRun(TRUE, TRUE, {<<pid, "SIGTERM">>}, k, TRUE) : k \in 0..(GracePolls - 1)}
    \cup {StopRun(TRUE, TRUE, {<<pid, "SIGTERM">>, <<pid, "SIGKILL">>}, GracePolls, TRUE),
          \* it died between the last probe and SIGKILL
          StopRun(FALSE, FALSE, {<<pid, "SIGTERM">>}, GracePolls, TRUE)}

\* The runs of stop_app(name) on the registry d.
StopRuns(d, name) ==
    LET pid == get_pid(d, name)
    IN  IF pid # NoPid /\ is_process_running(pid)
        THEN IF HAS_PSUTIL THEN StopPsutil(pid) ELSE StopSignals(pid)
        ELSE {StopRun(FALSE, FALSE, {}, 0, FALSE)}

\* A stop_app that leaves the pid in the entry.
Stopped_keeping_pid(d, name, r) == d

\* The registry after the run r of stop_app(name).
Stopped(d, name, r) ==
    IF r.clear /\ name \in DOMAIN d
    THEN Put(d, name, Entry(d[name].backend, d[name].frontend, NoPid))
    ELSE d

stop_app(name) ==
    /\ budget > 0
    /\ budget' = budget - 1
    /\ \E r \in StopRuns(data, name) :
          /\ data' = Stopped(data, name, r)
          /\ store' = (IF r.clear /\ name \in DOMAIN data THEN save(data') ELSE store)
          /\ alive' = (IF r.dead THEN alive \ {get_pid(data, name)} ELSE alive)
          /\ last' = [NoCall("stop_app", name) EXCEPT !.ok = r.ok, !.pid = get_pid(data, name),
                                                      !.signals = r.sigs, !.polls = r.polls]
    /\ UNCHANGED <<config, procs, disk, degraded>>

\* release: stop_app, whatever it returns, then the entry is deleted and saved.
release(name) ==
    /\ budget > 0
    /\ budget' = budget - 1
    /\ \E r \in StopRuns(data, name) :
          /\ data' = Del(Stopped(data, name, r), name)
          /\ store' = (IF name \in DOMAIN data THEN save(data') ELSE store)
          /\ alive' = (IF r.dead THEN alive \ {get_pid(data, name)} ELSE alive)
          /\ last' = [NoCall("release", name) EXCEPT !.pid = get_pid(data, name),
                                                     !.signals = r.sigs, !.polls = r.polls]
    /\ UNCHANGED <<config, procs, disk, degraded>>

\* ------------------------------------------------------------ loading
\* _load of a registry under construction: the file is read when it exists,
\* garbage collection runs on what was read, and nothing is written back.
\* The file as _load can find it: kind is "apps" for a JSON document with a
\* top-level "apps" mapping (doc holds its members), "no_apps" for a JSON
\* document without one, "not_json" for text json.loads rejects and
\* "unreadable" for a file read_text cannot read.
Kinds == {"apps", "no_apps", "not_json", "unreadable"}

\* What _load takes from the file before garbage collection.
parsed(st) ==
    IF ~st.exists THEN EmptyApps
    ELSE IF st.kind \in {"unreadable", "not_json"} THEN EmptyApps
    ELSE IF st.kind = "no_apps" THEN EmptyApps
    ELSE loads(st.doc)

\* A _load that takes whatever entries the file shows.
load_trusting(st) == IF st.exists THEN garbage_collect(loads(st.doc)) ELSE EmptyApps

load(st) == IF st.exists THEN garbage_collect(parsed(st)) ELSE EmptyApps

\* PortRegistry(): a new instance of the same process (generator restart).  A
\* process that got SIGTERM from garbage collection exits or ignores it.
construct ==
    /\ budget > 0
    /\ budget' = budget - 1
    /\ data' = load(store)
    /\ LET sent == gc_signalled(parsed(store))
       IN  /\ \E died \in SUBSET sent : alive' = alive \ died
           /\ last' = [NoCall("construct", "") EXCEPT !.signals = {<<p, "SIGTERM">> : p \in sent}]
    /\ UNCHANGED <<config, procs, disk, store, degraded>>

\* --------------------------------------------------------- environment
\* generate_app: app_dir.mkdir(parents=True, exist_ok=True)
mkdir(name) ==
    /\ budget > 0
    /\ budget' = budget - 1
    /\ name \notin dirs
    /\ rootExists' = TRUE
    /\ dirs' = dirs \cup {name}
    /\ last' = NoCall("mkdir", name)
    /\ UNCHANGED <<config, procs, data, store, alive, degraded>>

\* The user deletes a generated application, or generated/ as a whole.
rmdir(name) ==
    /\ budget > 0
    /\ budget' = budget - 1
    /\ name \in dirs
    /\ dirs' = dirs \ {name}
    /\ last' = NoCall("rmdir", name)
    /\ UNCHANGED <<config, procs, data, store, rootExists, alive, degraded>>

rmroot ==
    /\ budget > 0
    /\ budget' = budget - 1
    /\ rootExists
    /\ rootExists' = FALSE
    /\ dirs' = {}
    /\ last' = NoCall("rmroot", "")
    /\ UNCHANGED <<config, procs, data, store, alive, degraded>>

\* A process starts (subprocess.Popen of open_app) or exits by itself.
proc_start(pid) ==
    /\ budget > 0
    /\ budget' = budget - 1
    /\ pid \notin alive
    /\ alive' = alive \cup {pid}
    /\ last' = [NoCall("proc_start", "") EXCEPT !.pid = pid]
    /\ UNCHANGED <<config, procs, data, store, disk, degraded>>

proc_exit(pid) ==
    /\ budget > 0
    /\ budget' = budget - 1
    /\ pid \in alive
    /\ alive' = alive \ {pid}
    /\ last' = [NoCall("proc_exit", "") EXCEPT !.pid = pid]
    /\ UNCHANGED <<config, procs, data, store, disk, degraded>>

\* ---------------------------------------------------------------- Init
\* The generator's own ports (constants.py draws each from 3000..5000 and
\* separates them): a pair apart from each other and from the top of the
\* range, the backend right above the frontend, the frontend at the top.
GeneratorConfigs ==
    {<<MinPort, MinPort + 2>>, <<MinPort + 2, MinPort + 1>>, <<MinPort, MaxPort>>}

\* The processes that share the registry file, each with its own
\* PortRegistry instance.
Procs == {"p1", "p2"}

Lowest(S) == CHOOSE x \in S : \A y \in S : x <= y

\* The module is imported: constants.py has run to its end, the generator's
\* ports are read, nothing has been allocated.
Imported ==
    /\ \E c \in GeneratorConfigs :
          GENERATOR_BACKEND_PORT = c[1] /\ GENERATOR_FRONTEND_PORT = c[2]
    /\ GENERATED_BACKEND_PORT = Lowest(PortRange \ GeneratorPorts)
    /\ GENERATED_FRONTEND_PORT = Lowest(PortRange \ (GeneratorPorts \cup {GENERATED_BACKEND_PORT}))
    /\ port_config = [backend |-> GENERATOR_BACKEND_PORT,
                      frontend |-> GENERATOR_FRONTEND_PORT,
                      generated_backend |-> GENERATED_BACKEND_PORT,
                      generated_frontend |-> GENERATED_FRONTEND_PORT]
    /\ stage = "done"
    /\ project_name = [p \in Procs |-> ""]
    /\ writable = TRUE
    /\ degraded = FALSE
    /\ last = NoCall("init", "")

Boot ==
    /\ Imported
    /\ mem = [p \in Procs |-> EmptyApps]
    /\ pc = [p \in Procs |-> "new"]
    /\ holds = [p \in Procs |-> FALSE]
    /\ faults = {}

\* A first run: no registry file, hence an empty registry, and nothing
\* generated yet.  Process control plays no part in an allocation-only run.
InitAlloc ==
    /\ Boot
    /\ HAS_PSUTIL = FALSE
    /\ data = EmptyApps
    /\ store = [exists |-> FALSE, kind |-> "apps", doc |-> {}]
    /\ rootExists = FALSE
    /\ dirs = {}
    /\ alive = {}
    /\ budget = MaxAllocCalls

\* The lowest port of a set, and the ports outside the generator's by rank.
FreeRank[k \in 1..4] ==
    IF k = 1 THEN Lowest(PortRange \ GeneratorPorts)
    ELSE Lowest({p \in PortRange \ GeneratorPorts : p > FreeRank[k - 1]})

\* A later run: earlier runs generated app1 and app2, started app2, and left
\* both in the registry file; app2 is still running and the registry was
\* constructed from the file.
SavedApps ==
    [n \in {"app1", "app2"} |->
        IF n = "app1" THEN Entry(FreeRank[1], FreeRank[2], NoPid)
        ELSE Entry(FreeRank[3], FreeRank[4], Lowest(Pids))]

Init ==
    /\ Boot
    /\ HAS_PSUTIL \in BOOLEAN
    /\ rootExists = TRUE
    /\ dirs = {"app1", "app2"}
    /\ alive = {Lowest(Pids)}
    /\ store = [exists |-> TRUE, kind |-> "apps", doc |-> dumps(SavedApps)]
    /\ data = load(store)
    /\ budget = MaxSteps

\* Allocation alone: any sequence of ensure_ports / reserve_pair calls for
\* two applications.
AllocNames == {"app1", "app2"}
NextAlloc ==
    \/ \E name \in AllocNames, rb \in Candidates, rf \in Candidates : ensure_ports(name, rb, rf)
    \/ \E name \in AllocNames : reserve_pair(name)

SpecAlloc == InitAlloc /\ [][NextAlloc]_vars

\* What load_generated_apps can pass for an application: nothing readable
\* in its rxconfig.py, or the pair of some entry (its own, written back by an
\* earlier page load, or a copy of another application's).
PageRequests == {<<None, None>>} \cup {get_ports(data, m) : m \in DOMAIN data}

Next ==
    \/ \E name \in Names, rq \in PageRequests : ensure_ports(name, rq[1], rq[2])
    \/ \E name \in Names : reserve_pair(name)
    \/ \E name \in Names, pid \in Pids : set_pid(name, pid)
    \/ \E name \in Names : stop_app(name)
    \/ \E name \in Names : release(name)
    \/ construct
    \/ \E name \in Names : mkdir(name)
    \/ \E name \in Names : rmdir(name)
    \/ rmroot
    \/ \E pid \in Pids : proc_start(pid)
    \/ \E pid \in Pids : proc_exit(pid)

Spec == Init /\ [][Next]_vars

\* -------------------------------------------------------- constants.py
\* The module-level port assignment of constants.py.  _get_or_generate_port
\* returns the saved port when the probe finds it free and a random port of
\* the range otherwise, so each of the four starts anywhere in the range;
\* the port it returns is the one the configuration file holds afterwards.
\* The top of the range (5000 in the source) is MaxPort.
bump(port) == IF port < MaxPort THEN port + 1 ELSE port - 1

\* `if FRONTEND_PORT == BACKEND_PORT:` and the update of the saved config.
separate_frontend ==
    /\ stage = "generator"
    /\ IF GENERATOR_FRONTEND_PORT = GENERATOR_BACKEND_PORT
       THEN /\ GENERATOR_FRONTEND_PORT' = bump(GENERATOR_BACKEND_PORT)
            /\ port_config' = [port_config EXCEPT !.frontend = bump(GENERATOR_BACKEND_PORT)]
       ELSE UNCHANGED <<GENERATOR_FRONTEND_PORT, port_config>>
    /\ stage' = "generated"
    /\ UNCHANGED <<GENERATOR_BACKEND_PORT, GENERATED_BACKEND_PORT, GENERATED_FRONTEND_PORT,
                   HAS_PSUTIL, writable, procs, disk, data, store, alive, degraded,
                   budget, last, project_name>>

\* The two _get_or_generate_port calls for the generated applications.
get_generated(gb, gf) ==
    /\ stage = "generated"
    /\ GENERATED_BACKEND_PORT' = gb
    /\ GENERATED_FRONTEND_PORT' = gf
    /\ port_config' = [port_config EXCEPT !.generated_backend = gb, !.generated_frontend = gf]
    /\ stage' = "loop"
    /\ UNCHANGED <<GENERATOR_BACKEND_PORT, GENERATOR_FRONTEND_PORT,
                   HAS_PSUTIL, writable, procs, disk, data, store, alive, degraded,
                   budget, last, project_name>>

\* The condition of the while loop.
collides ==
    \/ GENERATED_FRONTEND_PORT = GENERATED_BACKEND_PORT
    \/ GENERATED_FRONTEND_PORT \in {GENERATOR_FRONTEND_PORT, GENERATOR_BACKEND_PORT}
    \/ GENERATED_BACKEND_PORT \in {GENERATOR_FRONTEND_PORT, GENERATOR_BACKEND_PORT}

\* One round of the while loop: the first branch that applies moves one port
\* by one, then the saved config is updated.
separate_generated ==
    /\ stage = "loop"
    /\ collides
    /\ IF GENERATED_FRONTEND_PORT = GENERATED_BACKEND_PORT
       THEN /\ GENERATED_FRONTEND_PORT' = bump(GENERATED_BACKEND_PORT)
            /\ GENERATED_BACKEND_PORT' = GENERATED_BACKEND_PORT
       ELSE IF GENERATED_FRONTEND_PORT \in {GENERATOR_FRONTEND_PORT, GENERATOR_BACKEND_PORT}
       THEN /\ GENERATED_FRONTEND_PORT' = bump(GENERATED_FRONTEND_PORT)
            /\ GENERATED_BACKEND_PORT' = GENERATED_BACKEND_PORT
       ELSE /\ GENERATED_BACKEND_PORT' = bump(GENERATED_BACKEND_PORT)
            /\ GENERATED_FRONTEND_PORT' = GENERATED_FRONTEND_PORT
    /\ port_config' = [port_config EXCEPT !.generated_backend = GENERATED_BACKEND_PORT',
                                          !.generated_frontend = GENERATED_FRONTEND_PORT']
    /\ stage' = "loop"
    /\ UNCHANGED <<GENERATOR_BACKEND_PORT, GENERATOR_FRONTEND_PORT,
                   HAS_PSUTIL, writable, procs, disk, data, store, alive, degraded,
                   budget, last, project_name>>

\* The while loop ends and the rest of the module runs.
configured ==
    /\ stage = "loop"
    /\ ~collides
    /\ stage' = "done"
    /\ UNCHANGED <<GENERATOR_BACKEND_PORT, GENERATOR_FRONTEND_PORT,
                   GENERATED_BACKEND_PORT, GENERATED_FRONTEND_PORT, port_config,
                   HAS_PSUTIL, writable, procs, disk, data, store, alive, degraded,
                   budget, last, project_name>>

\* constants.py is being imported: BACKEND_PORT and FRONTEND_PORT have their
\* starting values, each saved in the configuration file; no registry yet.
InitConfig ==
    /\ GENERATOR_BACKEND_PORT \in PortRange
    /\ GENERATOR_FRONTEND_PORT \in PortRange
    /\ GENERATED_BACKEND_PORT = None
    /\ GENERATED_FRONTEND_PORT = None
    /\ port_config = [backend |-> GENERATOR_BACKEND_PORT,
                      frontend |-> GENERATOR_FRONTEND_PORT,
                      generated_backend |-> None,
                      generated_frontend |-> None]
    /\ stage = "generator"
    /\ project_name = [p \in Procs |-> ""]
    /\ HAS_PSUTIL = FALSE
    /\ writable = TRUE
    /\ degraded = FALSE
    /\ last = NoCall("init", "")
    /\ mem = [p \in Procs |-> EmptyApps]
    /\ pc = [p \in Procs |-> "new"]
    /\ holds = [p \in Procs |-> FALSE]
    /\ faults = {}
    /\ data = EmptyApps
    /\ store = [exists |-> FALSE, kind |-> "apps", doc |-> {}]
    /\ rootExists = FALSE
    /\ dirs = {}
    /\ alive = {}
    /\ budget = 0

NextConfig ==
    \/ separate_frontend
    \/ \E gb \in PortRange, gf \in PortRange : get_generated(gb, gf)
    \/ separate_generated
    \/ configured

SpecConfig == InitConfig /\ [][NextConfig]_vars

\* The import runs statement after statement: a step that can be taken is
\* taken.
FairConfig == SpecConfig /\ WF_vars(NextConfig)

\* ------------------------------------------------- stop_app, stepwise
\* stop_app statement by statement in the generator process ("p1"), with
\* the stopped process free to exit between any two statements.  `last` is
\* the run so far: the signals sent, the sleeps of the grace loop, and what
\* the call returns once it has returned.
at(l) == pc["p1"] = l
resting == pc["p1"] \in {"new", "idle"}
goto(l) == pc' = [pc EXCEPT !["p1"] = l]
sends(sig) == last' = [last EXCEPT !.signals = @ \cup {<<last.pid, sig>>}]
returns(ok) == last' = [last EXCEPT !.ok = ok] /\ goto("idle")

\* A grace loop without rounds.
range_done_at_once(k) == TRUE

\* `for _ in range(10)` has run all its rounds.
range_done(k) == k >= GracePolls

\* pid = self.get_pid(app_name); if pid and _is_process_running(pid): ...
\* else return False
stop_begin(name) ==
    /\ budget > 0
    /\ budget' = budget - 1
    /\ resting
    /\ LET pid == get_pid(data, name)
       IN  IF pid # NoPid /\ is_process_running(pid)
           THEN /\ last' = [NoCall("stop_app", name) EXCEPT !.pid = pid, !.ok = FALSE]
                /\ goto(IF HAS_PSUTIL THEN "terminate" ELSE "SIGTERM")
           ELSE /\ last' = [NoCall("stop_app", name) EXCEPT !.pid = pid, !.ok = FALSE]
                /\ goto("idle")
    /\ UNCHANGED <<config, disk, data, store, alive, degraded, mem, holds, faults>>

\* os.kill(pid, signal.SIGTERM); ProcessLookupError leaves through
\* `except Exception: return False`.
kill_SIGTERM ==
    /\ at("SIGTERM")
    /\ IF last.pid \in alive THEN sends("SIGTERM") /\ goto("grace") ELSE returns(FALSE)
    /\ UNCHANGED <<config, disk, data, store, alive, degraded, budget, mem, holds, faults>>

\* One round of the grace loop: break when the process is gone, else sleep.
grace_round ==
    /\ at("grace")
    /\ IF range_done(last.polls) \/ ~is_process_running(last.pid)
       THEN last' = last /\ goto("after_grace")
       ELSE last' = [last EXCEPT !.polls = @ + 1] /\ goto("grace")
    /\ UNCHANGED <<config, disk, data, store, alive, degraded, budget, mem, holds, faults>>

\* if _is_process_running(pid): os.kill(pid, signal.SIGKILL)
after_grace ==
    /\ at("after_grace")
    /\ last' = last
    /\ goto(IF is_process_running(last.pid) THEN "SIGKILL" ELSE "clear")
    /\ UNCHANGED <<config, disk, data, store, alive, degraded, budget, mem, holds, faults>>

kill_SIGKILL ==
    /\ at("SIGKILL")
    /\ IF last.pid \in alive
       THEN sends("SIGKILL") /\ goto("clear") /\ alive' = alive \ {last.pid}
       ELSE returns(FALSE) /\ alive' = alive
    /\ UNCHANGED <<config, disk, data, store, degraded, budget, mem, holds, faults>>

\* psutil.Process(pid); process.terminate(): NoSuchProcess and AccessDenied
\* are swallowed.
ps_terminate ==
    /\ at("terminate")
    /\ \/ last.pid \in alive /\ sends("SIGTERM") /\ goto("wait")
       \/ last' = last /\ goto("clear")
    /\ UNCHANGED <<config, disk, data, store, alive, degraded, budget, mem, holds, faults>>

\* process.wait(timeout=3.0): returns when the process is gone, raises
\* TimeoutExpired when it is still there.
ps_wait ==
    /\ at("wait")
    /\ last' = last
    /\ goto(IF last.pid \in alive THEN "kill" ELSE "clear")
    /\ UNCHANGED <<config, disk, data, store, alive, degraded, budget, mem, holds, faults>>

\* process.kill(); NoSuchProcess is swallowed.
ps_kill ==
    /\ at("kill")
    /\ IF last.pid \in alive
       THEN sends("SIGKILL") /\ alive' = alive \ {last.pid}
       ELSE last' = last /\ alive' = alive
    /\ goto("clear")
    /\ UNCHANGED <<config, disk, data, store, degraded, budget, mem, holds, faults>>

\* The pid is popped from the entry, the registry saved, True returned.
clear_pid ==
    /\ at("clear")
    /\ data' = (IF last.app \in DOMAIN data
                THEN Put(data, last.app, Entry(data[last.app].backend, data[last.app].frontend, NoPid))
                ELSE data)
    /\ store' = (IF last.app \in DOMAIN data THEN save(data') ELSE store)
    /\ returns(TRUE)
    /\ UNCHANGED <<config, disk, alive, degraded, budget, mem, holds, faults>>

\* A running process exits by itself, or on a SIGTERM it got.
process_exits(pid) ==
    /\ pid \in alive
    /\ alive' = alive \ {pid}
    /\ UNCHANGED <<config, procs, disk, data, store, degraded, budget, last>>

stop_step ==
    \/ kill_SIGTERM \/ grace_round \/ after_grace \/ kill_SIGKILL
    \/ ps_terminate \/ ps_wait \/ ps_kill
    \/ clear_pid

NextStop ==
    \/ \E name \in existing_apps : stop_begin(name)
    \/ stop_step
    \/ \E pid \in Pids : process_exits(pid)

SpecStop == Init /\ [][NextStop]_vars

\* stop_app runs to its return: sleeps end, signals are sent.
FairStop == SpecStop /\ WF_vars(stop_step)

\* ------------------------------------------------------ registry file
\* The files a construction can meet: none, or a file of any kind whose text
\* shows the entries of an earlier run.
Stores ==
    {[exists |-> FALSE, kind |-> "apps", doc |-> {}]}
    \cup {[exists |-> TRUE, kind |-> k, doc |-> dumps(d)] :
            k \in Kinds, d \in {SavedApps, [n \in {"app1"} |-> SavedApps[n]]}}

\* Something other than the registry replaces, damages or removes the file.
overwrite(st) ==
    /\ budget > 0
    /\ budget' = budget - 1
    /\ st # store
    /\ store' = st
    /\ last' = NoCall("overwrite", "")
    /\ UNCHANGED <<config, procs, disk, data, alive, degraded>>

InitLoad ==
    /\ Boot
    /\ HAS_PSUTIL = FALSE
    /\ rootExists = TRUE
    /\ dirs = {"app1", "app2"}
    /\ alive = {Lowest(Pids)}
    /\ store \in Stores
    /\ data = EmptyApps
    /\ budget = MaxSteps

NextLoad ==
    \/ construct
    \/ \E st \in Stores : overwrite(st)

SpecLoad == InitLoad /\ [][NextLoad]_vars

\* ------------------------------------------------------------ handlers
\* The event handlers of GeneratorState (generator.py) on the registry
\* PORT_REGISTRY.  The applications of the page are the directories
\* load_generated_apps lists.

\* subprocess.Popen(["bash", run.sh]).pid for an application: one process id
\* per application, the one of app2 being that of the process the run starts
\* with.
popen_pid(name) == IF name = "app2" THEN Lowest(Pids) ELSE Lowest(Pids) + 1

\* A probe that always finds the port open.
is_port_open_always(name) == TRUE

\* _is_port_open("127.0.0.1", port) for the port of an application: the
\* process of the application serves its port as long as it runs.
is_port_open(name) == popen_pid(name) \in alive

\* The registries ensure_ports(name, rb, rf) can leave from d, each with
\* whether a last resort was returned.
ensured(d, name, rb, rf) ==
    IF name \in DOMAIN d /\ reusable(d[name])
    THEN {[data |-> Put(d, name, Entry(d[name].backend, d[name].frontend, NoPid)),
           lr |-> FALSE]}
    ELSE UNION {
           {[data |-> Put(d, name, Entry(pb.port, pf.port, NoPid)), lr |-> pb.lr \/ pf.lr]
              : pf \in frontend_choices(rf, pb.port, with_backend(forbidden_for(d, name), pb.port))}
           : pb \in backend_choices(rb, forbidden_for(d, name))}

\* What load_generated_apps reads from rxconfig.py of an application: nothing
\* it can parse, or the pair the registry recorded when the file was written.
rxconfig_ports(d, name) ==
    {<<None, None>>} \cup (IF name \in DOMAIN d THEN {get_ports(d, name)} ELSE {})

\* load_generated_apps: ensure_ports for every listed application, in the
\* order of iterdir().
RECURSIVE load_generated_apps(_, _)
load_generated_apps(r, todo) ==
    IF todo = {} THEN {r}
    ELSE UNION {
           UNION {
             UNION {load_generated_apps([data |-> e.data, lr |-> r.lr \/ e.lr], todo \ {n})
                      : e \in ensured(r.data, n, rq[1], rq[2])}
             : rq \in rxconfig_ports(r.data, n)}
           : n \in todo}

\* GeneratorState.on_load: a page load.
on_load ==
    /\ budget > 0
    /\ budget' = budget - 1
    /\ \E r \in load_generated_apps([data |-> data, lr |-> FALSE], existing_apps) :
          /\ data' = r.data
          /\ store' = (IF existing_apps = {} THEN store ELSE save(data'))
          /\ degraded' = (degraded \/ r.lr)
    /\ last' = NoCall("on_load", "")
    /\ UNCHANGED <<config, procs, disk, alive>>

\* GeneratorState.open_app: nothing is started when the port answers;
\* otherwise run.sh is started and its pid recorded, and the handler waits
\* for the port (the process may exit while it waits); without run.sh, or
\* when Popen raises, nothing is started.
State_open_app(name) ==
    /\ budget > 0
    /\ budget' = budget - 1
    /\ IF is_port_open(name)
       THEN /\ last' = NoCall("State_open_app", name)
            /\ UNCHANGED <<data, store, alive>>
       ELSE \/ /\ last' = [NoCall("State_open_app", name) EXCEPT !.ok = FALSE]
               /\ UNCHANGED <<data, store, alive>>
            \/ /\ IF name \in DOMAIN data
                  THEN /\ data' = Put(data, name, Entry(data[name].backend,
                                                        data[name].frontend, popen_pid(name)))
                       /\ store' = save(data')
                  ELSE UNCHANGED <<data, store>>
               /\ \E up \in BOOLEAN :
                     /\ alive' = (IF up THEN alive \cup {popen_pid(name)} ELSE alive)
                     /\ last' = [NoCall("State_open_app", name)
                                   EXCEPT !.ok = up, !.pid = popen_pid(name)]
    /\ UNCHANGED <<config, procs, disk, degraded>>

\* GeneratorState.stop_app: PORT_REGISTRY.stop_app(Path(path).name), then
\* the health refresh.
State_stop_app(name) ==
    /\ budget > 0
    /\ budget' = budget - 1
    /\ \E r \in StopRuns(data, name) :
          /\ data' = Stopped(data, name, r)
          /\ store' = (IF r.clear /\ name \in DOMAIN data THEN save(data') ELSE store)
          /\ alive' = (IF r.dead THEN alive \ {get_pid(data, name)} ELSE alive)
          /\ last' = [NoCall("State_stop_app", name)
                        EXCEPT !.ok = r.ok, !.pid = get_pid(data, name),
                               !.signals = r.sigs, !.polls = r.polls]
    /\ UNCHANGED <<config, procs, disk, degraded>>

\* GeneratorState.restart_app: PORT_REGISTRY.stop_app, two seconds of sleep,
\* then `await self.open_app(...)`.  open_app is an async generator (its body
\* yields), and awaiting an async generator object raises TypeError before
\* any line of open_app runs: the handler ends there and nothing is started.
State_restart_app(name) ==
    /\ budget > 0
    /\ budget' = budget - 1
    /\ \E r \in StopRuns(data, name) :
          /\ data' = Stopped(data, name, r)
          /\ store' = (IF r.clear /\ name \in DOMAIN data THEN save(data') ELSE store)
          /\ alive' = (IF r.dead THEN alive \ {get_pid(data, name)} ELSE alive)
          /\ last' = [NoCall("State_restart_app", name)
                        EXCEPT !.ok = FALSE, !.pid = get_pid(data, name),
                               !.signals = r.sigs, !.polls = r.polls]
    /\ UNCHANGED <<config, procs, disk, degraded>>

\* The page: loads and the buttons of the listed applications, with the
\* processes exiting by themselves.
\* Another process on the same registry file constructs its own registry,
\* calls ensure_ports(name) and saves.
other_process_ensure(name) ==
    /\ budget > 0
    /\ budget' = budget - 1
    /\ \E e \in {x \in ensured(load(store), name, None, None) : ~x.lr} :
          store' = save(e.data)
    /\ last' = NoCall("other_process_ensure", name)
    /\ UNCHANGED <<config, procs, disk, data, alive, degraded>>

\* The generator has just been started on a generated/ directory with two
\* applications and no registry file: PORT_REGISTRY is empty.
InitBatch ==
    /\ Boot
    /\ HAS_PSUTIL = FALSE
    /\ rootExists = TRUE
    /\ dirs = {"app1", "app2"}
    /\ alive = {}
    /\ store = [exists |-> FALSE, kind |-> "apps", doc |-> {}]
    /\ data = load(store)
    /\ budget = MaxAllocCalls

\* Page loads of this generator, allocations of another process, and
\* restarts of this generator (the module is imported again).
NextBatch ==
    \/ on_load
    \/ \E name \in existing_apps : other_process_ensure(name)
    \/ construct

SpecBatch == InitBatch /\ [][NextBatch]_vars

\* --------------------------------------------------- open_app, stepwise
\* GeneratorState.open_app from yield to yield.  The port of an application
\* is open while its process (popen_pid) is up; `last` is the run so far:
\* ok once a probe found the port open, polls the seconds waited.  The
\* handler has ended when it is at one of the Ended positions.
Ended == {"new", "idle", "redirected", "run_sh_missing", "start_failed", "timeout"}
ended == pc["p1"] \in Ended

\* start_time = time.time(); "Opening ..."; yield
open_begin(name) ==
    /\ budget > 0
    /\ budget' = budget - 1
    /\ ended
    /\ last' = [NoCall("open_app", name) EXCEPT !.ok = FALSE]
    /\ goto("probe")
    /\ UNCHANGED <<config, disk, data, store, alive, degraded, mem, holds, faults>>

\* if not self._is_port_open(...): "Starting ..."; yield
first_probe ==
    /\ at("probe")
    /\ IF is_port_open(last.app)
       THEN last' = [last EXCEPT !.ok = TRUE] /\ goto("refresh")
       ELSE last' = last /\ goto("start")
    /\ UNCHANGED <<config, disk, data, store, alive, degraded, budget, mem, holds, faults>>

\* The try block: run.sh is started and its pid recorded; or run.sh is not
\* there; or Popen raises.
start_run_sh ==
    /\ at("start")
    /\ \/ /\ IF last.app \in DOMAIN data
             THEN /\ data' = Put(data, last.app, Entry(data[last.app].backend,
                                                       data[last.app].frontend,
                                                       popen_pid(last.app)))
                  /\ store' = save(data')
             ELSE UNCHANGED <<data, store>>
          /\ last' = [last EXCEPT !.pid = popen_pid(last.app)]
          /\ goto("wait")
       \/ UNCHANGED <<data, store, last>> /\ goto("run_sh_missing")
       \/ UNCHANGED <<data, store, last>> /\ goto("start_failed")
    /\ UNCHANGED <<config, disk, alive, degraded, budget, mem, holds, faults>>

\* One round of `while time.time() - wait_start < 30`: the probe, then
\* either the break or sleep(1.0) and yield; the else branch of the loop
\* when the ceiling is reached.
wait_round ==
    /\ at("wait")
    /\ IF last.polls < WaitCeiling
       THEN IF is_port_open(last.app)
            THEN last' = [last EXCEPT !.ok = TRUE] /\ goto("refresh")
            ELSE last' = [last EXCEPT !.polls = @ + 1] /\ goto("wait")
       ELSE last' = last /\ goto("timeout")
    /\ UNCHANGED <<config, disk, data, store, alive, degraded, budget, mem, holds, faults>>

\* self.refresh_health(); yield rx.redirect(url)
redirect ==
    /\ at("refresh")
    /\ last' = last
    /\ goto("redirected")
    /\ UNCHANGED <<config, disk, data, store, alive, degraded, budget, mem, holds, faults>>

\* The application started by run.sh opens its port.
port_opens ==
    /\ at("wait")
    /\ popen_pid(last.app) \notin alive
    /\ alive' = alive \cup {popen_pid(last.app)}
    /\ UNCHANGED <<config, procs, disk, data, store, degraded, budget, last>>

open_step == first_probe \/ start_run_sh \/ wait_round \/ redirect

NextOpen ==
    \/ \E name \in existing_apps : open_begin(name)
    \/ open_step
    \/ port_opens
    \/ \E pid \in Pids : process_exits(pid)

SpecOpen == Init /\ [][NextOpen]_vars

\* The event loop resumes the handler after every yield and every sleep.
FairOpen == SpecOpen /\ WF_vars(open_step)

NextUI ==
    \/ on_load
    \/ \E name \in existing_apps : State_open_app(name)
    \/ \E name \in existing_apps : State_stop_app(name)
    \/ \E name \in existing_apps : State_restart_app(name)
    \/ \E pid \in Pids : proc_exit(pid)

SpecUI == Init /\ [][NextUI]_vars

\* --------------------------------------------------------- generate_app
\* generate_app step by step.  The handler is a coroutine of the generator's
\* event loop: it gives the loop to the other handlers at every yield and
\* every sleep, so the runs of two browser sessions interleave at these
\* points and nowhere else.  Each session has its own GeneratorState, hence
\* its own project_name and status; the sessions share the directory
\* generated/ and the one PORT_REGISTRY of the process.  pc[s] is where the
\* run of session s is: "new" before any run, "validate" and "create" at the
\* sleeps before the existence check and before the mkdir, "write" at the
\* sleeps between the file writes, "error" and "success" once it has ended.
Sessions == Procs

\* What the form can hold: nothing, or one of two spellings of a name.
ProjectNames == {"", "app1", "App 1", "app 1"}

\* project_name.lower().replace(" ", "_")
app_name(pn) ==
    IF pn \in {"App 1", "app 1"} THEN "app_1" ELSE pn

GenEnded == {"new", "error", "success"}
Passed == {"create", "write", "success"}

\* The handler is entered: an empty project name ends it at once, any other
\* name takes it to the first sleep.
generate_begin(s, pn) ==
    /\ budget > 0
    /\ pc[s] \in GenEnded
    /\ budget' = budget - 1
    /\ project_name' = [project_name EXCEPT ![s] = pn]
    /\ pc' = [pc EXCEPT ![s] = IF pn = "" THEN "error" ELSE "validate"]
    /\ last' = NoCall("generate_app", app_name(pn))
    /\ UNCHANGED <<GENERATOR_BACKEND_PORT, GENERATOR_FRONTEND_PORT, HAS_PSUTIL, writable,
                   generated, mem, holds, faults, disk, data, store, alive, degraded>>

\* Step 1: the application's directory must not exist.
validate(s) ==
    /\ pc[s] = "validate"
    /\ pc' = [pc EXCEPT ![s] = IF app_name(project_name[s]) \in existing_apps
                               THEN "error" ELSE "create"]
    /\ UNCHANGED <<config, mem, holds, faults, disk, data, store, alive, degraded,
                   budget, last>>

\* Step 2: the directories are made, existing or not, and the ports
\* reserved.
create_structure(s) ==
    /\ pc[s] = "create"
    /\ rootExists' = TRUE
    /\ dirs' = dirs \cup {app_name(project_name[s])}
    /\ EnsureBody("reserve_pair", app_name(project_name[s]), None, None)
    /\ pc' = [pc EXCEPT ![s] = "write"]
    /\ UNCHANGED <<config, mem, holds, faults, alive, budget>>

\* Steps 3 to 7: the project files are written over whatever is there.
write_files(s) ==
    /\ pc[s] = "write"
    /\ pc' = [pc EXCEPT ![s] = "success"]
    /\ UNCHANGED <<config, mem, holds, faults, disk, data, store, alive, degraded,
                   budget, last>>

\* A write raises: the handler ends with status error.
generate_raises(s) ==
    /\ pc[s] = "write"
    /\ pc' = [pc EXCEPT ![s] = "error"]
    /\ UNCHANGED <<config, mem, holds, faults, disk, data, store, alive, degraded,
                   budget, last>>

NextGenerate ==
    \/ \E s \in Sessions, pn \in ProjectNames : generate_begin(s, pn)
    \/ \E s \in Sessions : validate(s)
    \/ \E s \in Sessions : create_structure(s)
    \/ \E s \in Sessions : write_files(s)
    \/ \E s \in Sessions : generate_raises(s)

SpecGenerate == InitAlloc /\ [][NextGenerate]_vars

\* ----------------------------------------------------------- processes
\* Several processes on one registry file.  A process is where its registry
\* is: not constructed ("new"), between two operations ("idle"), or inside
\* _load or _save: before _acquire_lock ("load_wait", "save_wait"), in the
\* try block ("load_cs", "save_cs"), before _release_lock ("load_end",
\* "save_end").

\* Number of operations (constructions and ensure_ports calls) of one run of
\* the processes.
MaxProcOps == 2

\* PortRegistry() in process p: __init__ up to the call of _load.
P_construct(p) ==
    /\ budget > 0
    /\ budget' = budget - 1
    /\ pc[p] \in {"new", "idle"}
    /\ mem' = [mem EXCEPT ![p] = EmptyApps]
    /\ pc' = [pc EXCEPT ![p] = "load_wait"]
    /\ last' = NoCall("__init__", "")
    /\ UNCHANGED <<config, disk, data, store, alive, degraded, holds, faults>>

\* An flock that returns at once whoever holds the lock.
acquire_lock_unguarded(p) ==
    /\ pc[p] \in {"load_wait", "save_wait"}
    /\ holds' = [holds EXCEPT ![p] = TRUE]
    /\ pc' = [pc EXCEPT ![p] = IF pc[p] = "load_wait" THEN "load_cs" ELSE "save_cs"]
    /\ UNCHANGED <<config, disk, data, store, alive, degraded, budget, last, mem, faults>>

\* fcntl.flock(fd, LOCK_EX) returns: no other process holds the lock, and
\* now this one does.
flock(p) ==
    /\ pc[p] \in {"load_wait", "save_wait"}
    /\ \A q \in Procs : ~holds[q]
    /\ holds' = [holds EXCEPT ![p] = TRUE]
    /\ faults' = faults
    /\ pc' = [pc EXCEPT ![p] = IF pc[p] = "load_wait" THEN "load_cs" ELSE "save_cs"]
    /\ UNCHANGED <<config, disk, data, store, alive, degraded, budget, last, mem>>

\* os.open or flock raises: the exception is swallowed and the process goes
\* on without the lock.
flock_raises(p) ==
    /\ pc[p] \in {"load_wait", "save_wait"}
    /\ holds' = holds
    /\ faults' = faults \cup {"lock"}
    /\ pc' = [pc EXCEPT ![p] = IF pc[p] = "load_wait" THEN "load_cs" ELSE "save_cs"]
    /\ UNCHANGED <<config, disk, data, store, alive, degraded, budget, last, mem>>

\* _acquire_lock
acquire_lock(p) == flock(p) \/ flock_raises(p)

\* The try block of _load: the file is read when it exists and garbage
\* collection runs; a file that cannot be read or parsed gives an empty
\* registry.
load_read(p) ==
    /\ pc[p] = "load_cs"
    /\ \/ /\ mem' = [mem EXCEPT ![p] = load(store)]
          /\ last' = NoCall("_load", "")
          /\ LET sent == gc_signalled(parsed(store))
             IN  \E died \in SUBSET sent : alive' = alive \ died
       \/ /\ store.exists
          /\ mem' = [mem EXCEPT ![p] = EmptyApps]
          /\ last' = [NoCall("_load", "") EXCEPT !.ok = FALSE]
          /\ alive' = alive
    /\ pc' = [pc EXCEPT ![p] = "load_end"]
    /\ UNCHANGED <<config, disk, data, store, degraded, budget, holds, faults>>

\* ensure_ports(name, rb, rf) in process p, up to the call of _save: the
\* entry is decided on the registry the process has in memory.  The port
\* probe finds a free port whenever one is picked.
P_ensure_ports(p, name, rb, rf) ==
    /\ budget > 0
    /\ budget' = budget - 1
    /\ pc[p] = "idle"
    /\ \E e \in {x \in ensured(mem[p], name, rb, rf) : ~x.lr} :
          /\ mem' = [mem EXCEPT ![p] = e.data]
          /\ degraded' = degraded
    /\ pc' = [pc EXCEPT ![p] = "save_wait"]
    /\ last' = NoCall("P_ensure_ports", "")
    /\ UNCHANGED <<config, disk, data, store, alive, holds, faults>>

\* The try block of _save: the whole registry of the process is written; a
\* failing write is swallowed.
save_write(p) ==
    /\ pc[p] = "save_cs"
    /\ \/ store' = save(mem[p]) /\ last' = NoCall("_save", "")
       \/ store' = store /\ last' = [NoCall("_save", "") EXCEPT !.ok = FALSE]
    /\ pc' = [pc EXCEPT ![p] = "save_end"]
    /\ UNCHANGED <<config, disk, data, alive, degraded, budget, mem, holds, faults>>

\* A _release_lock that does nothing.
release_lock_kept(p) ==
    /\ pc[p] \in {"load_end", "save_end"}
    /\ pc' = [pc EXCEPT ![p] = "idle"]
    /\ UNCHANGED <<config, disk, data, store, alive, degraded, budget, last, mem, holds, faults>>

\* _release_lock in the finally block of _load and _save: flock(LOCK_UN) and
\* close; the operation returns.
release_lock(p) ==
    /\ pc[p] \in {"load_end", "save_end"}
    /\ holds' = [holds EXCEPT ![p] = FALSE]
    /\ pc' = [pc EXCEPT ![p] = "idle"]
    /\ UNCHANGED <<config, disk, data, store, alive, degraded, budget, last, mem, faults>>

\* The application a process allocates for: the processes call ensure_ports
\* for different application names.
app_of(p) == IF p = "p1" THEN "app1" ELSE "app2"

\* All steps of process p.
ProcNext(p) ==
    \/ P_construct(p)
    \/ acquire_lock(p)
    \/ load_read(p)
    \/ \E rq \in rxconfig_ports(mem[p], app_of(p)) :
          P_ensure_ports(p, app_of(p), rq[1], rq[2])
    \/ save_write(p)
    \/ release_lock(p)

NextProcs == \E p \in Procs : ProcNext(p)

\* A first run: no registry file, nothing generated.  Every process has
\* constructed its registry, from no file.  The generator's ports are the
\* lowest configuration.
InitProcs ==
    /\ Imported
    /\ GENERATOR_FRONTEND_PORT = MinPort + 2
    /\ mem = [p \in Procs |-> EmptyApps]
    /\ pc = [p \in Procs |-> "idle"]
    /\ holds = [p \in Procs |-> FALSE]
    /\ faults = {}
    /\ HAS_PSUTIL = FALSE
    /\ data = EmptyApps
    /\ store = [exists |-> FALSE, kind |-> "apps", doc |-> {}]
    /\ rootExists = FALSE
    /\ dirs = {}
    /\ alive = {}
    /\ budget = MaxProcOps

SpecProcs == InitProcs /\ [][NextProcs]_vars

\* Every process is scheduled: a step of a process that stays possible is
\* taken.  flock may or may not raise; a blocked flock returns once the lock
\* stays free.
FairProcs ==
    SpecProcs /\ \A p \in Procs :
        /\ WF_vars(flock(p))
        /\ WF_vars(load_read(p) \/ save_write(p) \/ release_lock(p))

\* ------------------------------------------------------------ properties
\* The operations that return a port pair.
AllocOps == {"ensure_ports", "reserve_pair"}

\* The ports recorded for an application.
PortsOf(n) == {data[n].backend, data[n].frontend}

\* A pair with two different ports, neither of them a port of the generator.
ValidPair(b, f) == b # f /\ b \notin GeneratorPorts /\ f \notin GeneratorPorts

\* All recorded ports and the generator's two ports are pairwise distinct.
AllDistinct ==
    /\ \A n \in DOMAIN data : data[n].backend # data[n].frontend
    /\ \A n \in DOMAIN data : PortsOf(n) \cap GeneratorPorts = {}
    /\ \A n, m \in DOMAIN data : n # m => PortsOf(n) \cap PortsOf(m) = {}

\* C1, as stated: after any sequence of ensure_ports and reserve_pair calls
\* the backend and frontend ports of all registered applications and the
\* generator's two ports are pairwise distinct.
C1_Uniqueness == AllDistinct

\* C1, amended: they are pairwise distinct as long as no allocation has
\* returned the last resort of _pick_available_port (some port outside the
\* forbidden set probed free each time a port was picked).
C1_UniquenessWithoutLastResort == (~degraded) => AllDistinct

\* C1: two applications registered and no last resort so far.
C1_Witness == (~degraded) /\ DOMAIN data = AllocNames /\ last.req = "other"

\* C2, as stated: no port that ensure_ports or reserve_pair returns is a port
\* of the generator, whatever the registry held, whatever was requested and
\* whatever the port probe answered.
C2_GeneratorPortsExcluded ==
    last.op \in AllocOps =>
        (last.backend \notin GeneratorPorts /\ last.frontend \notin GeneratorPorts)

\* A step that is the second of two consecutive ensure_ports(app, None, None)
\* calls for the same application.
EnsureTwice ==
    /\ budget' # budget
    /\ last.op = "ensure_ports" /\ last.req = "none"
    /\ last'.op = "ensure_ports" /\ last'.req = "none"
    /\ last'.app = last.app

\* C3, as stated: the second of two consecutive ensure_ports(app, None, None)
\* calls returns the pair the first one returned.
C3_Idempotent ==
    [][EnsureTwice => (last'.backend = last.backend /\ last'.frontend = last.frontend)]_vars

\* C3, amended: the second call returns the pair of the first when that pair
\* has two different ports and neither is a port of the generator.
C3_IdempotentWhenValid ==
    [][(EnsureTwice /\ ValidPair(last.backend, last.frontend))
          => (last'.backend = last.backend /\ last'.frontend = last.frontend)]_vars

\* C3: a second consecutive ensure_ports(app, None, None) has returned, and
\* the recorded pair is a valid one.
C3_Witness ==
    /\ last.op = "ensure_ports" /\ last.req = "none" /\ last.again
    /\ ValidPair(last.backend, last.frontend)

\* C5, as stated: the pair ensure_ports or reserve_pair returns has
\* backend # frontend, ensure_ports(app, X, X) included.
C5_Distinct == last.op \in AllocOps => last.backend # last.frontend

\* C5, amended: the returned pair has backend # frontend unless a port of it
\* is the last resort of _pick_available_port.
C5_DistinctWithoutLastResort ==
    (last.op \in AllocOps /\ ~last.lr) => last.backend # last.frontend

\* C5: ensure_ports(app, X, X) returned a pair without the last resort.
C5_Witness == last.op = "ensure_ports" /\ last.req = "same" /\ ~last.lr

\* C6: every port ensure_ports or reserve_pair returns lies in
\* min_port..max_port, the last resort included.
C6_InRange ==
    last.op \in AllocOps => (last.backend \in PortRange /\ last.frontend \in PortRange)

\* C6: a call returned the last resort.
C6_Witness == last.op \in AllocOps /\ last.lr

\* The step leaves the application its recorded pair.
Kept(n) == n \in DOMAIN data' /\ get_ports(data', n) = get_ports(data, n)

\* C4, as stated: an application with a recorded pair whose directory exists
\* keeps the pair over every step (page loads, set_pid, stop_app, re-construction
\* of the registry) except its release.
C4_Stable ==
    [][\A n \in Names :
          (n \in DOMAIN data /\ n \in dirs /\ ~(last'.op = "release" /\ last'.app = n))
             => Kept(n)]_vars

\* C4, amended: it keeps the pair when the pair has two different ports, neither
\* a port of the generator, and the name of the directory does not start with
\* a dot.
C4_StableWhenValid ==
    [][\A n \in Names :
          (/\ n \in DOMAIN data /\ n \in dirs /\ ~startswith_dot(n)
           /\ ValidPair(data[n].backend, data[n].frontend)
           /\ ~(last'.op = "release" /\ last'.app = n))
             => Kept(n)]_vars

\* C4: the registry was constructed again after two other steps and app1 has
\* the pair it had at the start.
C4_Witness ==
    /\ last.op = "construct" /\ budget <= MaxSteps - 3
    /\ "app1" \in dirs
    /\ get_ports(data, "app1") = get_ports(SavedApps, "app1")

\* The entry of n after a load is the one the file holds / is gone.
Loaded(n) == n \in DOMAIN data /\ data[n] = loads(store.doc)[n]
Collected(n) == n \notin DOMAIN data

\* C7, as stated: after a load exactly the entries of the file whose directory
\* under generated/ is gone are absent, the others are unchanged.
C7_GarbageCollected ==
    last.op = "construct" =>
        \A n \in DOMAIN loads(store.doc) : IF n \in dirs THEN Loaded(n) ELSE Collected(n)

\* C7, amended: when generated/ exists, the entries that stay, unchanged, are
\* those with a directory whose name does not start with a dot, and the others
\* are absent; when generated/ does not exist every entry stays.
C7_GarbageCollectedWhenRootExists ==
    last.op = "construct" =>
        /\ DOMAIN data \subseteq DOMAIN loads(store.doc)
        /\ \A n \in DOMAIN loads(store.doc) :
              IF rootExists /\ ~(n \in dirs /\ ~startswith_dot(n))
              THEN Collected(n) ELSE Loaded(n)

\* C7: a load in the presence of generated/ dropped an entry and kept another.
C7_Witness ==
    /\ last.op = "construct" /\ rootExists
    /\ \E n \in DOMAIN loads(store.doc) : n \notin DOMAIN data
    /\ \E n \in DOMAIN loads(store.doc) : n \in DOMAIN data

\* C8: a registry constructed from the file the registry was saved to answers
\* get_ports and get_pid, for every entry garbage collection keeps, as the
\* saved registry did.
C8_RoundTrip ==
    [][(/\ budget' # budget /\ last'.op = "construct"
        /\ store.exists /\ store.doc = dumps(data))
          => \A n \in DOMAIN data' :
                /\ get_ports(data', n) = get_ports(data, n)
                /\ get_pid(data', n) = get_pid(data, n)]_vars

\* C8: a load that kept an entry with a pid and an entry without one.
C8_Witness ==
    /\ last.op = "construct"
    /\ \E n \in DOMAIN data : data[n].pid # NoPid
    /\ \E n \in DOMAIN data : data[n].pid = NoPid

C10_StopWithoutProcess ==
    [][(/\ budget' # budget /\ last'.op = "stop_app"
        /\ (get_pid(data, last'.app) = NoPid \/ get_pid(data, last'.app) \notin alive))
          => (~last'.ok /\ last'.signals = {})]_vars

\* C10: stop_app returned false for a recorded pid that was not alive (with
\* psutil a call that finds the process alive returns true).
C10_Witness == last.op = "stop_app" /\ ~last.ok /\ last.pid # NoPid /\ HAS_PSUTIL

\* C11, as stated: stop_app returns true only when the termination request
\* was delivered to the process; a termination that fails (the process
\* vanished after the liveness probe, permission denied) returns false, with
\* psutil and without.
C11_TrueOnlyWhenDelivered ==
    (last.op = "stop_app" /\ last.ok) => last.signals # {}

\* C12, as stated: a stop action on an application whose process, started
\* through open_app, is running terminates that process, whatever page loads
\* came between; at the least the registry is asked to stop the pid of that
\* process.
C12_StopTerminates ==
    [][\A n \in AllocNames :
          (/\ budget' # budget /\ last'.op = "State_stop_app" /\ last'.app = n
           /\ popen_pid(n) \in alive)
             => (popen_pid(n) \notin alive' \/ last'.pid = popen_pid(n))]_vars

\* C13, as stated: restart_app on a running application ends with the
\* application up again: the handler completes, a process of the application
\* runs and its pid is recorded.
C13_RestartStarts ==
    [][\A n \in AllocNames :
          (/\ budget' # budget /\ last'.op = "State_restart_app" /\ last'.app = n
           /\ popen_pid(n) \in alive)
             => (/\ last'.ok
                 /\ popen_pid(n) \in alive'
                 /\ get_pid(data', n) = popen_pid(n))]_vars

\* A step that is release(n).
ReleaseStep(n) == budget' # budget /\ last'.op = "release" /\ last'.app = n

\* release(n) of a registered n, up to the forbidden set: the entry is gone
\* from memory and from the file, get_ports, get_pid and get_process_info
\* are absent, and every other entry is as it was.
Released(n) ==
    /\ n \notin DOMAIN data'
    /\ get_ports(data', n) = <<>> /\ get_pid(data', n) = NoPid
    /\ get_process_info(data', n) = <<>>
    /\ store'.exists /\ store'.doc = dumps(data')
    /\ \A key \in {"backend", "frontend", "pid"} : ~has_member(store'.doc, n, key)
    /\ \A m \in DOMAIN data \ {n} : m \in DOMAIN data' /\ data'[m] = data[m]

C15_SetPidUnregistered ==
    [][(budget' # budget /\ last'.op = "set_pid" /\ last'.app \notin DOMAIN data)
          => (/\ data' = data /\ store' = store
              /\ last'.app \notin DOMAIN data'
              /\ get_pid(data', last'.app) = NoPid)]_vars

\* C15: set_pid was called for a name without an entry.
C15_Witness == last.op = "set_pid" /\ last.pid # NoPid /\ last.app \notin DOMAIN data

\* The ports of an entry.
EntryPorts(e) == {e.backend, e.frontend}

\* C16, as stated: with the lock working and no allocation falling to the
\* last resort, no port is assigned to two different applications by the
\* processes that call ensure_ports on the same registry file.
C16_NoPortTwice ==
    (faults = {} /\ ~degraded) =>
        \A p, q \in Procs : \A n \in DOMAIN mem[p] : \A m \in DOMAIN mem[q] :
            n # m => EntryPorts(mem[p][n]) \cap EntryPorts(mem[q][m]) = {}
\* The file is one that gives _load nothing to take: missing, unreadable,
\* not JSON, or without a top-level "apps" mapping.
BadStorage(st) == ~st.exists \/ st.kind \in {"unreadable", "not_json", "no_apps"}

\* C17: constructing the registry on a missing, unreadable, non-JSON or
\* "apps"-less file completes and yields an empty registry: get_ports is
\* absent for every name, and the file is left as it was.
C17_BadStorageLoadsEmpty ==
    [][(budget' # budget /\ last'.op = "construct" /\ BadStorage(store))
          => (/\ data' = EmptyApps
              /\ \A n \in Names : get_ports(data', n) = <<>>
              /\ store' = store)]_vars

\* C17: a registry was constructed on a file of a bad kind whose text still
\* shows the entries of an earlier run.
C17_Witness ==
    /\ last.op = "construct"
    /\ store.exists /\ store.kind # "apps" /\ store.doc # {}
    /\ data = EmptyApps

InSection(p) == pc[p] \in {"load_cs", "load_end", "save_cs", "save_end"}
\* Process p waits in _acquire_lock.
Waiting(p) == pc[p] \in {"load_wait", "save_wait"}

\* C19: two different processes that hold the exclusive lock are never both
\* inside their load or save sections, and the lock has one holder at most.
C19_MutualExclusion ==
    \A p, q \in Procs :
        p # q => /\ ~(holds[p] /\ InSection(p) /\ holds[q] /\ InSection(q))
                 /\ ~(holds[p] /\ holds[q])

\* C19: one process is about to write the file under the lock while another
\* waits for the lock.
C19_Witness ==
    \E p, q \in Procs : p # q /\ holds[p] /\ pc[p] = "save_cs" /\ Waiting(q)

\* C20: a process that is outside _load and _save does not hold the lock,
\* whatever happened inside (read failure, write failure), and a process
\* that waits for the lock gets past _acquire_lock.
C20_LockAlwaysReleased ==
    /\ [](\A p \in Procs : ~InSection(p) /\ ~Waiting(p) => ~holds[p])
    /\ \A p \in Procs : Waiting(p) ~> InSection(p)

\* C20: a save whose write failed has returned, and nobody holds the lock.
C20_Witness ==
    /\ last.op = "_save" /\ ~last.ok
    /\ \A p \in Procs : pc[p] = "idle" /\ ~holds[p]

\* C21: when a process's write succeeds, the file holds exactly that
\* process's in-memory registry: entries of the file that the writer had
\* not in memory are gone.
C21_LastWriterWins ==
    [][\A p \in Procs :
          (pc[p] = "save_cs" /\ pc'[p] = "save_end" /\ last'.ok)
          => (/\ store'.exists /\ store'.kind = "apps"
              /\ store'.doc = dumps(mem[p])
              /\ loads(store'.doc) = mem[p]
              /\ \A n \in DOMAIN loads(store.doc) \ DOMAIN mem[p] :
                    n \notin DOMAIN loads(store'.doc))]_vars

\* C21: a lost update.  Process q has allocated for an application and
\* returned from its save; process p saved last, without that entry, and
\* the file has no entry of q's application.
C21_Witness ==
    \E p, q \in Procs :
        /\ p # q
        /\ last.op = "_save" /\ last.ok /\ pc[p] = "save_end"
        /\ pc[q] = "idle" /\ app_of(q) \in DOMAIN mem[q]
        /\ store.exists /\ store.doc = dumps(mem[p])
        /\ app_of(q) \notin DOMAIN loads(store.doc)

\* C22, as stated: a page load decides on the registry as the file holds it
\* when the batch begins: no application that gets a new entry in the batch
\* is given a port of an entry that another application has in the file.
C22_BatchStartsFromStore ==
    [][(budget' # budget /\ last'.op = "on_load" /\ ~degraded')
          => \A n \in DOMAIN load(store) : \A m \in DOMAIN data' \ DOMAIN data :
                m # n => EntryPorts(data'[m]) \cap EntryPorts(load(store)[n]) = {}]_vars

\* The registry operations that can change the registry.
Mutators == {"ensure_ports", "reserve_pair", "set_pid", "stop_app", "release", "construct"}

\* C23, as stated: after every operation that changed the registry (for a
\* construction: that removed entries of the file by garbage collection)
\* the file exists and holds exactly the in-memory registry.
C23_MutationsPersisted ==
    [][(/\ budget' # budget /\ last'.op \in Mutators
        /\ IF last'.op = "construct" THEN data' # parsed(store) ELSE data' # data)
          => (store'.exists /\ store'.kind = "apps" /\ loads(store'.doc) = data')]_vars

\* The pids a step sent a signal to.
Signalled(l) == {sg[1] : sg \in l.signals}
\* Garbage collection finds no directory for the name.
Gone(n) == rootExists /\ ~(n \in dirs /\ ~startswith_dot(n))

\* C24, as stated: a construction signals exactly the recorded pids that are
\* alive and belong to entries of the file whose directory is missing.
C24_SignalsVanished ==
    [][(budget' # budget /\ last'.op = "construct")
          => Signalled(last') =
                {parsed(store)[n].pid :
                    n \in {m \in DOMAIN parsed(store) :
                              m \notin dirs /\ parsed(store)[m].pid \in alive}}]_vars

\* C24, amended: when generated/ exists a construction sends SIGTERM to
\* exactly the recorded pids that are alive and belong to entries without a
\* directory whose name does not start with a dot, and to nobody when
\* generated/ is missing; those entries are removed whether or not the
\* process goes away, and no process is started.
C24_SignalsCollected ==
    [][(budget' # budget /\ last'.op = "construct")
          => /\ Signalled(last') =
                   {parsed(store)[n].pid :
                       n \in {m \in DOMAIN parsed(store) :
                                 Gone(m) /\ parsed(store)[m].pid \in alive}}
             /\ \A sg \in last'.signals : sg[2] = "SIGTERM"
             /\ \A n \in DOMAIN parsed(store) : Gone(n) => n \notin DOMAIN data'
             /\ alive' \subseteq alive]_vars

\* C24: a construction signalled the process of a vanished application, the
\* process is still alive and the entry is gone.
C24_Witness ==
    /\ last.op = "construct"
    /\ \E n \in DOMAIN parsed(store) :
          /\ n \notin DOMAIN data
          /\ parsed(store)[n].pid \in Signalled(last)
          /\ parsed(store)[n].pid \in alive

\* C25: SIGKILL goes to a pid only when SIGTERM went to the same pid before,
\* the grace period is over (all GracePolls sleeps, or the 3 s wait of
\* psutil) and the process is still there; the sleeps never exceed
\* GracePolls; and every stop_app returns.
C25_EscalationOrder ==
    /\ [][\A pid \in Pids :
            (<<pid, "SIGKILL">> \in last'.signals /\ <<pid, "SIGKILL">> \notin last.signals)
            => (/\ last.op = "stop_app" /\ last'.op = "stop_app"
                /\ <<pid, "SIGTERM">> \in last.signals
                /\ (HAS_PSUTIL \/ last.polls = GracePolls)
                /\ pid \in alive)]_vars
    /\ [](last.polls <= GracePolls)
    /\ (~resting ~> resting)

\* C25: a stop_app returned after SIGTERM, the whole grace period and
\* SIGKILL.
C25_Witness ==
    /\ resting /\ last.op = "stop_app" /\ last.ok
    /\ ~HAS_PSUTIL /\ last.polls = GracePolls
    /\ {<<last.pid, "SIGTERM">>, <<last.pid, "SIGKILL">>} \subseteq last.signals

\* C26: the handler notes the port as open only at a probe while the port is
\* open, and redirects only after that; after a missing run.sh, a failed
\* launch or a wait of WaitCeiling seconds it has ended without a redirect
\* and without having seen the port open; the wait never exceeds the
\* ceiling and every run of the handler ends.
C26_RedirectAfterOpen ==
    /\ [][(last'.op = "open_app" /\ last'.ok /\ ~(last.op = "open_app" /\ last.ok))
            => (pc["p1"] \in {"probe", "wait"} /\ popen_pid(last'.app) \in alive)]_vars
    /\ [](last.op = "open_app" =>
            /\ (pc["p1"] \in {"refresh", "redirected"} => last.ok)
            /\ (pc["p1"] \in {"run_sh_missing", "start_failed", "timeout"} => ~last.ok)
            /\ (pc["p1"] = "timeout" => last.polls = WaitCeiling)
            /\ last.polls <= WaitCeiling)
    /\ (~ended ~> ended)

\* C26: the handler started an application, waited, and redirected.
C26_Witness ==
    /\ last.op = "open_app" /\ pc["p1"] = "redirected"
    /\ last.polls > 0 /\ last.pid # NoPid

\* C27: an ensure_ports call for an application whose entry holds a pid
\* leaves the entry without pid, in memory and in the file, so that get_pid
\* and get_process_info answer absent, although the call stops no process;
\* the entries of the other applications are as before.
C27_EnsureDropsPid ==
    [][(/\ budget' # budget /\ last'.op \in AllocOps
        /\ last'.app \in DOMAIN data /\ data[last'.app].pid # NoPid)
          => (/\ last'.app \in DOMAIN data'
              /\ get_pid(data', last'.app) = NoPid
              /\ get_process_info(data', last'.app) = <<>>
              /\ ~has_member(store'.doc, last'.app, "pid")
              /\ alive' = alive
              /\ \A m \in DOMAIN data \ {last'.app} :
                    m \in DOMAIN data' /\ data'[m] = data[m])]_vars

\* C27: the first step of a run was an ensure_ports call for app2, whose
\* entry held the pid of its running process; the process still runs and the
\* entry has no pid.
C27_Witness ==
    /\ last.op \in AllocOps /\ last.app = "app2" /\ budget = MaxSteps - 1
    /\ SavedApps["app2"].pid \in alive
    /\ get_pid(data, "app2") = NoPid

\* The entry of n holds a pid that no running process has.
Stale(n) == n \in DOMAIN data /\ data[n].pid # NoPid /\ data[n].pid \notin alive

\* C28: stop_app for an application whose recorded pid is not alive returns
\* false and changes nothing: no signal, the same entry with the same pid
\* and ports, the same file; and a stale pid leaves an entry only in an
\* ensure_ports call, a release or a construction of the registry.
C28_StaleStopChangesNothing ==
    [][\A n \in Names : Stale(n) =>
          /\ (budget' # budget /\ last'.op = "stop_app" /\ last'.app = n)
                => (/\ ~last'.ok /\ last'.signals = {}
                    /\ data' = data /\ store' = store /\ alive' = alive
                    /\ get_pid(data', n) = data[n].pid
                    /\ get_ports(data', n) = get_ports(data, n))
          /\ get_pid(data', n) = NoPid
                => last'.op \in AllocOps \cup {"release", "construct"}]_vars

\* C28: stop_app returned false for an application whose recorded process is
\* gone, and the pid is still recorded.
C28_Witness ==
    /\ last.op = "stop_app" /\ ~last.ok
    /\ last.pid # NoPid /\ last.pid \notin alive
    /\ get_pid(data, last.app) = last.pid

\* C29, as stated: for every combination of starting values the loop that
\* separates the generated-application ports comes to its end, and the
\* ports it adjusts stay in the range.
C29_LoopTerminates ==
    /\ [](stage \in {"loop", "done"} =>
            {GENERATED_BACKEND_PORT, GENERATED_FRONTEND_PORT} \subseteq PortRange)
    /\ (stage = "loop" ~> stage = "done")

\* C30: generate_app never writes into an existing application: a run that
\* finds the application's directory at validation ends with status error,
\* allocates no ports and changes no file; of the runs of two sessions for
\* the same application, interleaved at their yields and sleeps, at most one
\* is past validation; and a run with an empty project name ends with status
\* error, creates no directory and allocates no ports.
C30_NeverWritesIntoExisting ==
    /\ [][\A s \in Sessions :
            (pc[s] = "validate" /\ pc'[s] # "validate"
                /\ app_name(project_name[s]) \in existing_apps)
            => (pc'[s] = "error" /\ data' = data /\ store' = store /\ disk' = disk)]_vars
    /\ [](\A s, t \in Sessions :
            (s # t /\ pc[s] \in Passed /\ pc[t] \in Passed)
            => app_name(project_name[s]) # app_name(project_name[t]))
    /\ [][\A s \in Sessions :
            (pc[s] \in GenEnded /\ pc'[s] # pc[s] /\ project_name'[s] = "")
            => (pc'[s] = "error" /\ data' = data /\ store' = store /\ disk' = disk)]_vars
    /\ [](\A s \in Sessions : pc[s] \in Passed \cup {"validate"} => project_name[s] # "")

====
